---- MODULE Spec2Model ----
(***************************************************************************)
(* A model of the RAG engine of backend/rag_engine.py: the vector store    *)
(* (a Chroma collection), the ingestion manifest files on disk, and the    *)
(* engine's service operations initialize, ingest_documents,               *)
(* clear_all_documents, clear_case_documents, get_document_count,          *)
(* search_cases and query.                                                 *)
(*                                                                         *)
(* Strings whose structure matters (case identifiers, file names, manifest *)
(* keys, path components) are sequences of characters, so that len,        *)
(* concatenation and startswith are the real sequence operations.  A path  *)
(* is a pathlib.Path: the sequence of its parts.  Distances and            *)
(* similarities are Python floats (IEEE 754 doubles): each one is the      *)
(* number m * 2^e it holds, and the sums, products and quotients are       *)
(* rounded to the nearest double as the machine rounds them.               *)
(***************************************************************************)
EXTENDS Integers, Sequences, FiniteSets, TLC

VARIABLES
    initialized,    \* RAGEngine._initialized
    collection,     \* the Chroma collection "forensic_cases": the stored nodes, in insertion order
    fs,             \* the manifest and metadata.json files on disk: path -> file content
    result,         \* what the last service call returned or raised
    runs            \* the ingestion runs of the processes sharing the store and the files

vars == <<initialized, collection, fs, result, runs>>

----------------------------------------------------------------------------
(* Bounds of the model *)

\* the most nodes the collection holds: an insert beyond it is not explored
MaxStore == 3

\* the largest distance of a stored node to a query embedding, where the specification
\* draws the distances of every stored node
MaxDist == 1

\* the whole distances drawn for two stored fragments: 0..MaxNear and the four up to
\* MaxFar
MaxNear == 20
MaxFar == 2001

----------------------------------------------------------------------------
(* Strings and paths *)

Sep == <<"_">>

\* str.startswith
StartsWith(s, prefix) ==
    /\ Len(prefix) <= Len(s)
    /\ SubSeq(s, 1, Len(prefix)) = prefix

\* the root of an absolute path: "/", or "//" for a string that starts with exactly
\* two slashes
is_absolute(p) == p # <<>> /\ p[1] \in {<<"/">>, <<"/", "/">>}

\* Path.parent: the path without its last part; the root and the empty path are
\* their own parents
Parent(p) ==
    IF p = <<>> \/ (Len(p) = 1 /\ is_absolute(p)) THEN p ELSE SubSeq(p, 1, Len(p) - 1)

\* Path.name: the last part, '' for the root and for the empty path
Name(p) == IF p = <<>> \/ (Len(p) = 1 /\ is_absolute(p)) THEN <<>> ELSE p[Len(p)]

RECURSIVE split_slash(_)
\* s.split('/')
split_slash(s) ==
    IF \E i \in 1..Len(s) : s[i] = "/"
    THEN LET i == CHOOSE i \in 1..Len(s) : s[i] = "/" /\ \A j \in 1..(i - 1) : s[j] # "/"
         IN <<SubSeq(s, 1, i - 1)>> \o split_slash(SubSeq(s, i + 1, Len(s)))
    ELSE <<s>>

RECURSIVE leading_slashes(_)
\* the number of "/" a string starts with
leading_slashes(s) == IF s # <<>> /\ s[1] = "/" THEN 1 + leading_slashes(Tail(s)) ELSE 0

\* a part pathlib keeps: not empty and not "."
is_part(x) == x # <<>> /\ x # <<".">>

\* Path(s).parts: the root if the string starts with "/", then the names between the
\* slashes, the empty ones and "." dropped, ".." kept
path_parts(s) ==
    LET n == leading_slashes(s)
        root == IF n = 0 THEN <<>>
                ELSE IF n = 2 THEN << <<"/", "/">> >> ELSE << <<"/">> >>
    IN root \o SelectSeq(split_slash(SubSeq(s, n + 1, Len(s))), is_part)

\* Path(p) / s: an absolute s replaces p
PathJoin(p, s) ==
    LET parts == path_parts(s) IN IF is_absolute(parts) THEN parts ELSE p \o parts

RECURSIVE join_slash(_)
\* '/'.join(parts)
join_slash(parts) ==
    IF parts = <<>> THEN <<>>
    ELSE IF Len(parts) = 1 THEN parts[1]
    ELSE parts[1] \o <<"/">> \o join_slash(Tail(parts))

\* str(path)
path_str(p) ==
    IF p = <<>> THEN <<".">>
    ELSE IF is_absolute(p) THEN p[1] \o join_slash(Tail(p))
    ELSE join_slash(p)

\* config.DATA_DIR = "./data/cases"
DATA_DIR == << <<"d", "a", "t", "a">>, <<"c", "a", "s", "e", "s">> >>

ManifestName ==
    <<".", "i", "n", "g", "e", "s", "t", "i", "o", "n", "_",
     "m", "a", "n", "i", "f", "e", "s", "t", ".", "j", "s", "o", "n">>

\* the manifest ingest_documents reads and writes
IngestManifestPath(case_dir) == Append(Parent(Parent(case_dir)), ManifestName)

\* the manifest clear_all_documents and clear_case_documents use
ClearManifestPath == Append(DATA_DIR, ManifestName)

----------------------------------------------------------------------------
(* The case storage: the directories below the working directory, the     *)
(* case directories with the documents SimpleDirectoryReader.load_data()   *)
(* yields for them, in order.  A PDF yields one document per page, all     *)
(* with the same file_name.                                                *)

CaseC  == <<"c">>
CaseCX == <<"c", "_", "x">>
CaseD  == <<"d">>
CaseOld  == <<"o", "l", "d">>
\* the identifier POST /ingest is given for the directory data/cases/old/d
CaseOldD == <<"o", "l", "d", "/", "d">>
CaseE  == <<"e">>

FileXY == <<"x", "_", "y", ".", "p", "d", "f">>
FileY  == <<"y", ".", "p", "d", "f">>
FileZ  == <<"z", ".", "t", "x", "t">>
FileW  == <<"w", ".", "t", "x", "t">>

DirC  == Append(DATA_DIR, CaseC)
DirCX == Append(DATA_DIR, CaseCX)
\* a directory that holds no file, only the directory d
DirOld == Append(DATA_DIR, CaseOld)
\* a case directory one level deeper, under data/cases/old
DirD  == Append(DirOld, CaseD)

\* a case whose manifest keys meet no key of the other cases
DirE  == Append(DATA_DIR, CaseE)

CaseDirs == {DirC, DirCX, DirD}

\* the working directory of the server and of ingest.py, an absolute path
Cwd == << <<"/">>, <<"a", "p", "p">> >>

\* the directories there are, by their absolute paths: the working directory and
\* those above it, DATA_DIR and those above it, and the directories under DATA_DIR
Directories ==
    {SubSeq(Cwd, 1, n) : n \in 1..Len(Cwd)}
    \cup {Cwd \o SubSeq(DATA_DIR, 1, n) : n \in 1..Len(DATA_DIR)}
    \cup {Cwd \o d : d \in {DirC, DirCX, DirOld, DirD, DirE}}

\* what a path leads to when a part of it is looked up in something that is no
\* directory
NoEntry == << <<>> >>

RECURSIVE walk(_, _)
\* the entry the operating system reaches from the directory at along the parts
\* rest: ".." is the parent of the directory reached (the root is its own), a name
\* is looked up in the directory reached
walk(at, rest) ==
    IF rest = <<>> THEN at
    ELSE IF at \notin Directories THEN NoEntry
    ELSE IF Head(rest) = <<".", ".">>
    THEN walk(IF Len(at) = 1 THEN at ELSE SubSeq(at, 1, Len(at) - 1), Tail(rest))
    ELSE walk(Append(at, Head(rest)), Tail(rest))

\* the absolute path of the entry a path names, a relative path taken from the
\* working directory ("//" is the root as "/" is)
real_path(p) == IF is_absolute(p) THEN walk(<< <<"/">> >>, Tail(p)) ELSE walk(Cwd, p)

\* the entry a path names, by its path from the working directory when it lies
\* below it: the files of fs are kept under these
file_key(p) ==
    LET r == real_path(p)
    IN IF r # NoEntry /\ StartsWith(r, Cwd) THEN SubSeq(r, Len(Cwd) + 1, Len(r)) ELSE r

\* Path.is_dir
is_dir(p) == real_path(p) \in Directories

\* the (case_dir, case_id) arguments of ingest_documents as ingest.py gives them: a
\* directory and its name (line 136; --case old/d for the nested one).  POST /ingest
\* gives DATA_DIR / case_id and case_id (main.py 148-160): see ingest_endpoint.
IngestCall(case_dir, case_id) == [case_dir |-> case_dir, case_id |-> case_id]

IngestCalls == {IngestCall(d, Name(d)) : d \in CaseDirs}

\* A document text is a run-length string: a sequence of runs [ch, n], n > 0,
\* standing for n copies of the character ch.
Text(ch, n) == << [ch |-> ch, n |-> n] >>

\* SimpleDirectoryReader(input_dir=case_dir, required_exts=[.txt, .pdf, .docx],
\* recursive=False).load_data(): the documents of the files of the directory the
\* path names; none for a path that names no directory, or a directory that holds no
\* such file (data/cases/old, DATA_DIR, the directories above it)
load_data(case_dir) ==
    LET d == file_key(case_dir)
    IN IF d = DirC
       THEN << [file_name |-> FileXY, text |-> Text("p", 350)],
               [file_name |-> FileXY, text |-> Text("q", 200)] >>
       ELSE IF d = DirCX
       THEN << [file_name |-> FileY, text |-> Text("r", 201)] >>
       ELSE IF d = DirE
       THEN << [file_name |-> FileW, text |-> Text("t", 3)] >>
       ELSE IF d = DirD
       THEN << [file_name |-> FileZ, text |-> Text("s", 7)] >>
       ELSE <<>>

\* the reader raises ValueError in place of returning no document: "Directory ...
\* does not exist." or "No files found in ..."
reader_raises(case_dir) == load_data(case_dir) = <<>>

\* the names of the content files of a directory
content_files(dir) ==
    LET docs == load_data(dir) IN {docs[i].file_name : i \in 1..Len(docs)}

\* Optional[Dict]: None, or a dict
None == [isNone |-> TRUE, dict |-> <<>>]
Some(d) == [isNone |-> FALSE, dict |-> d]

\* Python truthiness of an Optional[Dict]
TruthyDict(m) == ~m.isNone /\ DOMAIN m.dict # {}

\* the request metadata passed to ingest_documents
MetadataInputs == {None, Some([case_id |-> CaseD])}

----------------------------------------------------------------------------
(* Manifest files *)

Absent  == [kind |-> "absent",  data |-> <<>>]
\* a file whose content json.load rejects (also an empty or cut file)
Corrupt == [kind |-> "corrupt", data |-> <<>>]

\* json.dump(manifest, f, indent=2) into a file opened with 'w'
json_dump(manifest) == [kind |-> "json", data |-> manifest]

\* the file a path names, Absent when there is none
file_at(files, p) ==
    LET key == file_key(p) IN IF key \in DOMAIN files THEN files[key] ELSE Absent

\* the files with the file a path names replaced, or created
file_put(files, p, file) ==
    LET key == file_key(p)
    IN [k \in DOMAIN files \cup {key} |-> IF k = key THEN file ELSE files[k]]

\* Path.exists: a directory, a content file, or a file of fs
path_exists(files, p) ==
    LET key == file_key(p)
    IN \/ is_dir(p)
       \/ Name(key) \in content_files(Parent(key))
       \/ file_at(files, p).kind # "absent"

\* the length of one entry of a manifest as json.dump(manifest, f, indent=2) writes
\* it: the key and the three values (strings of characters json.dump does not
\* escape) between 73 characters of quotes, field names, indentation and line ends
entry_len(key, entry) ==
    73 + Len(key) + Len(entry.case_id) + Len(entry.file_name)
       + Len(path_str(entry.ingested_at))

RECURSIVE entries_len(_, _)
entries_len(manifest, keys) ==
    IF keys = {} THEN 0
    ELSE LET k == CHOOSE k \in keys : TRUE
         IN entry_len(k, manifest[k]) + entries_len(manifest, keys \ {k})

\* len(json.dumps(manifest, indent=2)): "{}" for the empty manifest, else the
\* entries between "{\n" and "\n}" with ",\n" between two of them
json_len(manifest) ==
    IF DOMAIN manifest = {} THEN 2
    ELSE 4 + entries_len(manifest, DOMAIN manifest)
           + 2 * (Cardinality(DOMAIN manifest) - 1)

\* the size of the manifest file a run finds when it writes: the text another run
\* has written since this run cut the file to length 0, or nothing
file_size(file) == IF file.kind = "json" THEN json_len(file.data) ELSE 0

ManifestPaths == {IngestManifestPath(d) : d \in CaseDirs} \cup {ClearManifestPath}

\* the files at the start, the manifests absent or unreadable, on top of the
\* metadata.json files given
StartFiles(metadata_files) ==
    {manifests @@ metadata_files : manifests \in [ManifestPaths -> {Absent, Corrupt}]}

\* the manifest ingest_documents starts from: {} unless the file exists and parses
load_manifest(file) == IF file.kind = "json" THEN file.data ELSE <<>>

\* f"{case_id}_{file_name}"
doc_key(case_id, file_name) == case_id \o Sep \o file_name

\* dict.update
dict_update(d, e) ==
    [k \in DOMAIN d \cup DOMAIN e |-> IF k \in DOMAIN e THEN e[k] ELSE d[k]]

\* d[k] = v
dict_set(d, k, v) ==
    [x \in DOMAIN d \cup {k} |-> IF x = k THEN v ELSE d[x]]

----------------------------------------------------------------------------
(* ingest_documents *)

\* ingest_doc without the manifest update of lines 372-376
ingest_doc_no_record(st, doc, case_dir, case_id, metadata, force_reingest) ==
    LET key == doc_key(case_id, doc.file_name) IN
    IF key \in DOMAIN st.manifest /\ ~force_reingest
    THEN [st EXCEPT !.skipped = @ + 1]
    ELSE [st EXCEPT !.coll = Append(@, [metadata |-> [case_id |-> case_id,
                                                      file_name |-> doc.file_name],
                                        text |-> doc.text]),
                    !.ingested = @ + 1]

\* ingest_doc with line 358 reading "if doc_key in manifest:"
ingest_doc_ignore_force(st, doc, case_dir, case_id, metadata, force_reingest) ==
    LET key == doc_key(case_id, doc.file_name) IN
    IF key \in DOMAIN st.manifest
    THEN [st EXCEPT !.skipped = @ + 1]
    ELSE [st EXCEPT !.coll = Append(@, [metadata |-> [case_id |-> case_id,
                                                      file_name |-> doc.file_name],
                                        text |-> doc.text]),
                    !.manifest = dict_set(@, key,
                            [case_id |-> case_id, file_name |-> doc.file_name,
                             ingested_at |-> case_dir]),
                    !.ingested = @ + 1]

\* one iteration of the loop over documents; st is the loop's state
ingest_doc(st, doc, case_dir, case_id, metadata, force_reingest) ==
    LET key == doc_key(case_id, doc.file_name) IN
    IF key \in DOMAIN st.manifest /\ ~force_reingest
    THEN [st EXCEPT !.skipped = @ + 1]
    ELSE LET md0 == [case_id |-> case_id, file_name |-> doc.file_name]
             md  == IF TruthyDict(metadata) THEN dict_update(md0, metadata.dict) ELSE md0
             node == [metadata |-> md, text |-> doc.text]
         IN [st EXCEPT !.coll = Append(@, node),
                       !.manifest = dict_set(@, key,
                            [case_id |-> case_id, file_name |-> doc.file_name,
                             ingested_at |-> case_dir]),
                       !.ingested = @ + 1]

RECURSIVE ingest_loop(_, _, _, _, _, _, _)
ingest_loop(st, docs, i, case_dir, case_id, metadata, force_reingest) ==
    IF i > Len(docs) THEN st
    ELSE ingest_loop(ingest_doc(st, docs[i], case_dir, case_id, metadata, force_reingest),
                     docs, i + 1, case_dir, case_id, metadata, force_reingest)

\* the whole run on the files and the collection given: load the manifest, loop, and
\* the state it ends in
ingest_run_from(files, coll, case_dir, case_id, metadata, force_reingest) ==
    ingest_loop([manifest |-> load_manifest(file_at(files, IngestManifestPath(case_dir))),
                 coll |-> coll, ingested |-> 0, skipped |-> 0],
                load_data(case_dir), 1, case_dir, case_id, metadata, force_reingest)

ingest_run(case_dir, case_id, metadata, force_reingest) ==
    ingest_run_from(fs, collection, case_dir, case_id, metadata, force_reingest)

NotInitialized(op) == [op |-> op, status |-> "not_initialized"]

ingest_documents(case_dir, case_id, metadata, force_reingest) ==
    LET run == ingest_run(case_dir, case_id, metadata, force_reingest)
    IN
    \/ /\ ~initialized
       /\ result' = NotInitialized("ingest")
       /\ UNCHANGED <<initialized, collection, fs, runs>>
    \/ \* lines 343-347: the reader raises, after the manifest was read and before
       \* anything is written
       /\ initialized
       /\ reader_raises(case_dir)
       /\ result' = [op |-> "ingest", status |-> "raised", error |-> "ValueError",
                     case_dir |-> case_dir, case_id |-> case_id]
       /\ UNCHANGED <<initialized, collection, fs, runs>>
    \/ /\ initialized
       /\ ~reader_raises(case_dir)
       /\ Len(run.coll) <= MaxStore
       /\ collection' = run.coll
       /\ fs' = file_put(fs, IngestManifestPath(case_dir), json_dump(run.manifest))
       /\ result' = [op |-> "ingest", status |-> "ok", case_dir |-> case_dir,
                     case_id |-> case_id, force |-> force_reingest,
                     ingested |-> run.ingested, skipped |-> run.skipped]
       /\ UNCHANGED <<initialized, runs>>

----------------------------------------------------------------------------
(* initialize, get_document_count, clear_all_documents, clear_case_documents *)

initialize ==
    \/ /\ ~initialized
       /\ initialized' = TRUE
       /\ result' = [op |-> "initialize", status |-> "ok"]
       /\ UNCHANGED <<collection, fs, runs>>
    \/ \* lines 60-61: already initialized, return
       /\ initialized
       /\ result' = [op |-> "initialize", status |-> "ok"]
       /\ UNCHANGED <<initialized, collection, fs, runs>>

get_document_count ==
    /\ result' = [op |-> "count", status |-> "ok",
                  value |-> IF ~initialized THEN 0 ELSE Len(collection)]
    /\ UNCHANGED <<initialized, collection, fs, runs>>

\* clear_all_documents without the check of lines 393-394
clear_all_documents_unchecked ==
    /\ collection' = <<>>
    /\ fs' = [fs EXCEPT ![ClearManifestPath] = Absent]
    /\ result' = [op |-> "clear_all", status |-> "ok", value |-> TRUE]
    /\ UNCHANGED <<initialized, runs>>

clear_all_documents ==
    \/ /\ ~initialized
       /\ result' = NotInitialized("clear_all")
       /\ UNCHANGED <<initialized, collection, fs, runs>>
    \/ /\ initialized
       /\ collection' = <<>>
       /\ fs' = [fs EXCEPT ![ClearManifestPath] = Absent]
       /\ result' = [op |-> "clear_all", status |-> "ok", value |-> TRUE]
       /\ UNCHANGED <<initialized, runs>>

\* the keys clear_case_documents removes
keys_to_remove(manifest, case_id) ==
    {k \in DOMAIN manifest : StartsWith(k, case_id \o Sep)}

clear_case_documents(case_id) ==
    \/ /\ ~initialized
       /\ result' = NotInitialized("clear_case")
       /\ UNCHANGED <<initialized, collection, fs, runs>>
    \/ /\ initialized
       /\ fs[ClearManifestPath].kind = "json"
       /\ LET manifest == fs[ClearManifestPath].data
              gone == keys_to_remove(manifest, case_id)
          IN /\ fs' = [fs EXCEPT ![ClearManifestPath] =
                         json_dump([k \in DOMAIN manifest \ gone |-> manifest[k]])]
             /\ result' = [op |-> "clear_case", status |-> "ok", case_id |-> case_id,
                           value |-> Cardinality(gone)]
       /\ UNCHANGED <<initialized, collection, runs>>
    \/ \* no manifest file, or json.load raised: both return 0 and write nothing
       /\ initialized
       /\ fs[ClearManifestPath].kind # "json"
       /\ result' = [op |-> "clear_case", status |-> "ok", case_id |-> case_id,
                     value |-> 0]
       /\ UNCHANGED <<initialized, collection, fs, runs>>

----------------------------------------------------------------------------
(* Run-length strings: slicing, length, concatenation *)

RECURSIVE text_len(_)
\* len(text)
text_len(t) == IF t = <<>> THEN 0 ELSE t[1].n + text_len(Tail(t))

RECURSIVE text_take(_, _)
\* text[:k]
text_take(t, k) ==
    IF t = <<>> \/ k <= 0 THEN <<>>
    ELSE IF t[1].n >= k THEN << [ch |-> t[1].ch, n |-> k] >>
    ELSE <<t[1]>> \o text_take(Tail(t), k - t[1].n)

\* text + other, kept in normal form (adjacent runs of one character merged)
text_concat(t, u) ==
    IF t = <<>> THEN u
    ELSE IF u = <<>> THEN t
    ELSE IF t[Len(t)].ch = u[1].ch
    THEN SubSeq(t, 1, Len(t) - 1) \o << [ch |-> u[1].ch, n |-> t[Len(t)].n + u[1].n] >> \o Tail(u)
    ELSE t \o u

----------------------------------------------------------------------------
(* Floating-point numbers *)

Min(a, b) == IF a <= b THEN a ELSE b
Max(a, b) == IF a >= b THEN a ELSE b

\* The mantissa of a float is a natural number of up to 53 binary digits, and the sums,
\* products and quotients of mantissas are larger.  A natural number of any size is the
\* sequence of its digits in base Limb, the least significant first and the most
\* significant not 0; <<>> is 0.  The operators nat_... are the arithmetic of these
\* numbers as it is done by hand; the operators float_..., further down, are the
\* operations of Python on floats.
LimbBits == 15
Limb == 2^LimbBits

RECURSIVE nat_of(_)
nat_of(n) == IF n = 0 THEN <<>> ELSE <<n % Limb>> \o nat_of(n \div Limb)

RECURSIVE nat_value(_)
\* the number, when it is small enough to be written as an integer of the model
nat_value(a) == IF a = <<>> THEN 0 ELSE a[1] + Limb * nat_value(Tail(a))

RECURSIVE nat_norm(_)
\* a without the digits 0 in front
nat_norm(a) ==
    IF a # <<>> /\ a[Len(a)] = 0 THEN nat_norm(SubSeq(a, 1, Len(a) - 1)) ELSE a

limb_at(a, i) == IF i <= Len(a) THEN a[i] ELSE 0

RECURSIVE add_from(_, _, _, _)
add_from(a, b, i, carry) ==
    IF i > Len(a) /\ i > Len(b) THEN (IF carry = 0 THEN <<>> ELSE <<carry>>)
    ELSE <<(limb_at(a, i) + limb_at(b, i) + carry) % Limb>>
         \o add_from(a, b, i + 1, (limb_at(a, i) + limb_at(b, i) + carry) \div Limb)

nat_add(a, b) == add_from(a, b, 1, 0)

RECURSIVE sub_from(_, _, _, _)
sub_from(a, b, i, borrow) ==
    IF i > Len(a) THEN <<>>
    ELSE IF a[i] - limb_at(b, i) - borrow < 0
    THEN <<a[i] - limb_at(b, i) - borrow + Limb>> \o sub_from(a, b, i + 1, 1)
    ELSE <<a[i] - limb_at(b, i) - borrow>> \o sub_from(a, b, i + 1, 0)

\* a - b, for a >= b
nat_sub(a, b) == nat_norm(sub_from(a, b, 1, 0))

RECURSIVE cmp_from(_, _, _)
cmp_from(a, b, i) ==
    IF i = 0 THEN 0
    ELSE IF a[i] > b[i] THEN 1
    ELSE IF a[i] < b[i] THEN -1
    ELSE cmp_from(a, b, i - 1)

\* 1, 0 or -1 as a is greater than, equal to or less than b
nat_cmp(a, b) ==
    IF Len(a) > Len(b) THEN 1
    ELSE IF Len(a) < Len(b) THEN -1
    ELSE cmp_from(a, b, Len(a))

RECURSIVE mul_from(_, _, _, _)
mul_from(a, c, i, carry) ==
    IF i > Len(a) THEN (IF carry = 0 THEN <<>> ELSE <<carry>>)
    ELSE <<(a[i] * c + carry) % Limb>> \o mul_from(a, c, i + 1, (a[i] * c + carry) \div Limb)

\* a * c, for 0 <= c <= Limb
nat_mul_small(a, c) == IF c = 0 THEN <<>> ELSE mul_from(a, c, 1, 0)

RECURSIVE div_from(_, _, _, _)
\* the digits 1..i of the quotient of a short division of a by c, rem being what the
\* digits above i left
div_from(a, c, i, rem) ==
    IF i = 0 THEN <<>>
    ELSE Append(div_from(a, c, i - 1, (rem * Limb + a[i]) % c), (rem * Limb + a[i]) \div c)

RECURSIVE int_bits(_)
int_bits(n) == IF n = 0 THEN 0 ELSE 1 + int_bits(n \div 2)

\* the number of binary digits of a
nat_bits(a) == IF a = <<>> THEN 0 ELSE LimbBits * (Len(a) - 1) + int_bits(a[Len(a)])

\* a * 2^k
nat_shl(a, k) ==
    IF a = <<>> \/ k = 0 THEN a
    ELSE [i \in 1..(k \div LimbBits) |-> 0] \o nat_mul_small(a, 2^(k % LimbBits))

\* a divided by 2^k, the remainder dropped
nat_shr(a, k) ==
    IF k \div LimbBits >= Len(a) THEN <<>>
    ELSE nat_norm(div_from(SubSeq(a, k \div LimbBits + 1, Len(a)),
                           2^(k % LimbBits), Len(a) - k \div LimbBits, 0))

\* Long division by b in base Limb, the most significant digit of b being Limb / 2 or
\* more.  A digit of the quotient is at most the quotient of the two leading digits of
\* what is divided by the leading digit of b, and at least that less 2.
long_div_guess(r, b) ==
    Min(Limb - 1, (limb_at(r, Len(b) + 1) * Limb + limb_at(r, Len(b))) \div b[Len(b)])

\* the digit of the quotient of r by b, r being less than b * Limb
long_div_digit(r, b, guess) ==
    CHOOSE d \in Max(0, guess - 2)..guess :
        /\ nat_cmp(nat_mul_small(b, d), r) <= 0
        /\ nat_cmp(nat_mul_small(b, d + 1), r) > 0

\* the quotient with one digit more, and what the digit leaves of r
long_div_put(q, r, b, digit) ==
    [q |-> <<digit>> \o q, r |-> nat_sub(r, nat_mul_small(b, digit))]

\* one step: the digit v is brought down after what the digits above it left
long_div_step(above, b, v) ==
    long_div_put(above.q,
                 IF above.r = <<>> /\ v = 0 THEN <<>> ELSE <<v>> \o above.r,
                 b,
                 long_div_digit(IF above.r = <<>> /\ v = 0 THEN <<>> ELSE <<v>> \o above.r,
                                b,
                                long_div_guess(<<v>> \o above.r, b)))

RECURSIVE long_div_from(_, _, _)
\* the quotient and the remainder of the digits i and above of a by b
long_div_from(a, b, i) ==
    IF i > Len(a) THEN [q |-> <<>>, r |-> <<>>]
    ELSE long_div_step(long_div_from(a, b, i + 1), b, a[i])

\* the quotient q and the remainder r of a by b, b not 0, from those of a * 2^k by
\* b * 2^k
long_div_result(d, k) == [q |-> nat_norm(d.q), r |-> nat_shr(d.r, k)]

\* the quotient and the remainder of a by b * 2^-k, b * 2^k having the most significant
\* digit Limb / 2 or more
long_div_scaled(a, b, k) == long_div_result(long_div_from(nat_shl(a, k), nat_shl(b, k), 1), k)

RECURSIVE rem_from(_, _, _, _)
\* the remainder of a short division of a by c
rem_from(a, c, i, rem) ==
    IF i = 0 THEN rem ELSE rem_from(a, c, i - 1, (rem * Limb + a[i]) % c)

\* the quotient q and the remainder r of a by b, b not 0
nat_divmod(a, b) ==
    IF Len(b) = 1
    THEN [q |-> nat_norm(div_from(a, b[1], Len(a), 0)), r |-> nat_of(rem_from(a, b[1], Len(a), 0))]
    ELSE long_div_scaled(a, b, LimbBits - int_bits(b[Len(b)]))

\* q, or q + 1: n / 2^cut to the nearest whole number, q being the whole of n / 2^cut
\* and half telling how the rest of it compares to 1/2.  With more, the number rounded
\* is a little above n / 2^cut.  A number half way goes to the even one.
round_up(q, half, more) ==
    IF half > 0 \/ (half = 0 /\ (more \/ (q # <<>> /\ q[1] % 2 = 1)))
    THEN nat_add(q, <<1>>) ELSE q

nat_round_from(n, cut, more, q) ==
    round_up(q, nat_cmp(nat_sub(n, nat_shl(q, cut)), nat_shl(<<1>>, cut - 1)), more)

\* n / 2^cut to the nearest whole number, cut > 0
nat_round(n, cut, more) == nat_round_from(n, cut, more, nat_shr(n, cut))

\* A float of Python (an IEEE 754 double) that is not negative is m * 2^e, m a natural
\* number of at most 53 binary digits.  The numbers of the model stay within the
\* normal range of the doubles, so that e is not bounded.
MantissaBits == 53

RECURSIVE float_of(_, _)
\* the float n * 2^e of a small n, written with n odd (or as 0 * 2^0): one float is
\* written one way
float_of(n, e) ==
    IF n = 0 THEN [m |-> <<>>, e |-> 0]
    ELSE IF n % 2 = 0 THEN float_of(n \div 2, e + 1)
    ELSE [m |-> nat_of(n), e |-> e]

\* the double nearest to n * 2^e, or, with more, to a number a little above n * 2^e
round_to_double(n, e, more) ==
    IF nat_bits(n) <= MantissaBits THEN [m |-> n, e |-> e]
    ELSE [m |-> nat_round(n, nat_bits(n) - MantissaBits, more),
          e |-> e + nat_bits(n) - MantissaBits]

\* a + b
float_add(a, b) ==
    round_to_double(nat_add(nat_shl(a.m, a.e - Min(a.e, b.e)),
                            nat_shl(b.m, b.e - Min(a.e, b.e))),
                    Min(a.e, b.e), FALSE)

\* a * c, c a whole number from 1 to Limb: the float of c holds c exactly
float_times(a, c) == round_to_double(nat_mul_small(a.m, c), a.e, FALSE)

\* the double nearest to (d.q + d.r / b) * 2^e, d being a quotient and a remainder
round_quotient(d, e) == round_to_double(d.q, e, d.r # <<>>)

\* a / b from the quotient of a.m * 2^k by b.m
float_div_to(a, b, k) == round_quotient(nat_divmod(nat_shl(a.m, k), b.m), a.e - b.e - k)

\* a / b, b not 0: the quotient is taken to two binary digits more than a double holds
float_div(a, b) ==
    IF a.m = <<>> THEN a
    ELSE float_div_to(a, b, Max(0, nat_bits(b.m) + MantissaBits + 2 - nat_bits(a.m)))

\* 1, 0 or -1 as a is greater than, equal to or less than b
float_cmp(a, b) ==
    IF a = b THEN 0
    ELSE IF a.e = b.e THEN nat_cmp(a.m, b.m)
    ELSE nat_cmp(nat_shl(a.m, a.e - Min(a.e, b.e)), nat_shl(b.m, b.e - Min(a.e, b.e)))

\* round(x, 1), in tenths: the decimal with one digit nearest to the number the double
\* is, a number half way between two going to the even one
round_1(x) ==
    IF x.e >= 0 THEN nat_value(nat_shl(nat_mul_small(x.m, 10), x.e))
    ELSE nat_value(nat_round(nat_mul_small(x.m, 10), -x.e, FALSE))

----------------------------------------------------------------------------
(* The Chroma collection's nearest-neighbour query *)

\* Optional[str]: None, or a string
NoneStr == [isNone |-> TRUE, str |-> <<>>]
SomeStr(s) == [isNone |-> FALSE, str |-> s]

\* Python truthiness of an Optional[str]
TruthyStr(x) == ~x.isNone /\ x.str # <<>>

\* eligible with the where-filter dropped
eligible_unfiltered(where) == 1..Len(collection)

\* the stored nodes a where-filter {"case_id": value} lets through (all, without one)
eligible(where) ==
    {i \in 1..Len(collection) :
        where.isNone \/ ( /\ "case_id" \in DOMAIN collection[i].metadata
                          /\ collection[i].metadata.case_id = where.str )}

\* node i does not come after node j: it is nearer, or as near and inserted no later
not_after(dist, i, j) ==
    \/ float_cmp(dist[collection[i].text], dist[collection[j].text]) < 0
    \/ /\ float_cmp(dist[collection[i].text], dist[collection[j].text]) = 0
       /\ i <= j

RECURSIVE by_distance(_, _)

\* node i, then the other nodes of idxs
nearest_first(idxs, dist, i) == <<i>> \o by_distance(idxs \ {i}, dist)

\* the nodes of idxs by ascending distance, equal distances in insertion order
by_distance(idxs, dist) ==
    IF idxs = {} THEN <<>>
    ELSE nearest_first(idxs, dist, CHOOSE i \in idxs : \A j \in idxs : not_after(dist, i, j))

\* the texts in the collection
stored_texts == {collection[i].text : i \in 1..Len(collection)}

\* order[:n]
first_n(order, n) == SubSeq(order, 1, Min(n, Len(order)))

\* the metadatas, documents and distances of the nodes hits, as collection.query
\* returns them
query_hits(dist, hits) ==
    [k \in 1..Len(hits) |->
        [metadata |-> collection[hits[k]].metadata,
         text     |-> collection[hits[k]].text,
         distance |-> dist[collection[hits[k]].text]]]

\* collection.query(query_embeddings=[e], n_results=n, where=where): the n nearest
\* eligible nodes; dist[t] is the distance of the embedding of text t to the query
\* embedding (the embedding is a function of the text)
chroma_query(dist, n_results, where) ==
    query_hits(dist, first_n(by_distance(eligible(where), dist), n_results))

----------------------------------------------------------------------------
(* query *)

\* config.TOP_K_RETRIEVAL
TOP_K_RETRIEVAL == 5

SnippetLen == 200

Ellipsis == Text(".", 3)

\* snippet without the marker
snippet_no_marker(text) == text_take(text, SnippetLen)

\* node.text[:200] + "..." if len(node.text) > 200 else node.text
snippet(text) ==
    IF text_len(text) > SnippetLen
    THEN text_concat(text_take(text, SnippetLen), Ellipsis)
    ELSE text

\* the Source built from one retrieved node; the store's score is passed through
source_of(node) ==
    [doc_id  |-> IF "file_name" \in DOMAIN node.metadata
                 THEN node.metadata.file_name ELSE <<"u", "n", "k", "n", "o", "w", "n">>,
     snippet |-> snippet(node.text),
     relevance_score |-> [distance |-> node.distance]]

\* the retriever of the query engine: with a truthy case_id, filtered by it
retrieve(dist, case_id) ==
    chroma_query(dist, TOP_K_RETRIEVAL, IF TruthyStr(case_id) THEN case_id ELSE NoneStr)

\* the external calls of query_engine.query, in order: the query text is embedded,
\* the store is searched, the completion is requested
QueryCalls == <<"embed", "store", "complete">>

\* the sources of the retrieved nodes
sources_of(source_nodes) ==
    [k \in 1..Len(source_nodes) |-> source_of(source_nodes[k])]

\* the QueryResponse of query, source_nodes being the nodes retrieved
query_response(query_text, case_id, source_nodes) ==
    [op |-> "query", status |-> "ok", text |-> query_text,
     calls |-> QueryCalls, case_id |-> case_id,
     source_nodes |-> source_nodes, sources |-> sources_of(source_nodes),
     total_chunks_retrieved |-> Len(source_nodes)]

query(query_text, dist, case_id) ==
    \/ /\ ~initialized
       /\ result' = NotInitialized("query")
       /\ UNCHANGED <<initialized, collection, fs, runs>>
    \/ /\ initialized
       /\ result' = query_response(query_text, case_id, retrieve(dist, case_id))
       /\ UNCHANGED <<initialized, collection, fs, runs>>

----------------------------------------------------------------------------
(* search_cases *)

PoolLimit == 50
SummaryLen == 300
MaxFindings == 5

One == float_of(1, 0)

\* query_results['distances'][0][i], where every stored node has a distance
Dists == {float_of(n, 0) : n \in 0..MaxDist}

\* distances that are not whole numbers.  2^-1, 2^-12, 2^-30 and a double a little
\* above it; 2^-53 and 2^-60, which 1.0 + distance does not hold; the doubles next above
\* 1, 3, 1999 and 2000; 1.5, 1999.5 and 2000.5
CloseDists ==
    {float_of(p[1], p[2]) : p \in {<<1, -1>>, <<1, -12>>, <<1, -30>>, <<8388609, -53>>,
                                    <<1, -53>>, <<1, -60>>, <<3, -1>>, <<3999, -1>>,
                                    <<4001, -1>>}}
    \cup {float_add(float_of(p[1], 0), float_of(1, p[2])) :
                p \in {<<1, -52>>, <<3, -51>>, <<1999, -42>>, <<2000, -42>>}}

\* query_results['distances'][0][i], where two fragments are stored
ScoreDists == {float_of(n, 0) : n \in 0..MaxNear \cup (MaxFar - 3)..MaxFar} \cup CloseDists

\* the similarity with the division left out
similarity_no_division(distance) == float_add(One, distance)

\* 1.0 / (1.0 + distance)
similarity(distance) == float_div(One, float_add(One, distance))

\* a > b on similarities
sim_gt(a, b) == float_cmp(a, b) > 0

\* round(score * 100, 1), in tenths
relevance_score(score) == round_1(float_times(score, 100))

\* metadata.get('case_id'), line 255: <<>> stands for None and for the empty string,
\* which line 256 skips alike
hit_case_id(hit) ==
    IF "case_id" \in DOMAIN hit.metadata THEN hit.metadata.case_id ELSE <<>>

\* lines 264-267 with line 265 reading "if True:", the last hit of a case winning
keep_last(agg, hit, case_id, sim) ==
    IF case_id = <<>> THEN agg
    ELSE [order |-> IF case_id \in DOMAIN agg.case_scores
                    THEN agg.order ELSE Append(agg.order, case_id),
          case_scores |-> dict_set(agg.case_scores, case_id, sim),
          case_texts  |-> dict_set(agg.case_texts, case_id, hit.text)]

\* dedup_hit with line 265 reading "if True:"
dedup_hit_last_wins(agg, hit) ==
    keep_last(agg, hit, hit_case_id(hit), similarity(hit.distance))

\* lines 264-267: the hit of case case_id, of similarity sim, is kept when the case is
\* new or sim is greater than the case's score
keep_best(agg, hit, case_id, sim) ==
    IF case_id = <<>> THEN agg
    ELSE IF case_id \notin DOMAIN agg.case_scores
    THEN [order |-> Append(agg.order, case_id),
          case_scores |-> dict_set(agg.case_scores, case_id, sim),
          case_texts  |-> dict_set(agg.case_texts, case_id, hit.text)]
    ELSE IF sim_gt(sim, agg.case_scores[case_id])
    THEN [agg EXCEPT !.case_scores = dict_set(@, case_id, sim),
                     !.case_texts  = dict_set(@, case_id, hit.text)]
    ELSE agg

\* one iteration of the loop over the hits: agg is case_scores and case_texts, with
\* order the insertion order of case_scores' keys
dedup_hit(agg, hit) ==
    keep_best(agg, hit, hit_case_id(hit), similarity(hit.distance))

RECURSIVE dedup(_, _, _)
dedup(agg, hits, i) ==
    IF i > Len(hits) THEN agg ELSE dedup(dedup_hit(agg, hits[i]), hits, i + 1)

RECURSIVE sorted_desc(_, _)

\* item k, then the other items
greatest_first(items, scores, k) ==
    <<items[k]>>
    \o sorted_desc([j \in 1..(Len(items) - 1) |-> IF j < k THEN items[j] ELSE items[j + 1]],
                   scores)

\* sorted(case_scores.items(), key=lambda x: x[1], reverse=True): stable, so cases with
\* equal scores stay in the order of items
sorted_desc(items, scores) ==
    IF items = <<>> THEN <<>>
    ELSE greatest_first(items, scores,
            CHOOSE k \in 1..Len(items) :
                /\ \A j \in 1..Len(items) : ~sim_gt(scores[items[j]], scores[items[k]])
                /\ \A j \in 1..(k - 1) : sim_gt(scores[items[k]], scores[items[j]]))

\* JSON values as json.load returns them: a str, a list, None, a number
JStr(v)  == [t |-> "str", v |-> v]
JList(v) == [t |-> "list", v |-> v]
JNull    == [t |-> "null", v |-> <<>>]
\* a number, as its digits
JNum(n)  == [t |-> "num", v |-> n]

MetadataName == <<"m", "e", "t", "a", "d", "a", "t", "a", ".", "j", "s", "o", "n">>

\* DATA_DIR / case_id / "metadata.json"
MetadataPath(case_id) == Append(PathJoin(DATA_DIR, case_id), MetadataName)

\* a metadata.json as the case schema describes it
GoodMetadata ==
    json_dump([title |-> JStr(<<"Title C">>), summary |-> JStr(Text("m", 40)),
               key_findings |-> JList(<<"f1", "f2", "f3", "f4", "f5", "f6">>),
               documents |-> JList(<<"d1">>)])

\* the case's metadata.json
metadata_file(case_id) == file_at(fs, MetadataPath(case_id))

\* (DATA_DIR / case_id).exists()
case_dir_exists(case_id) == path_exists(fs, PathJoin(DATA_DIR, case_id))

\* len(list(case_dir.glob('*.*'))): the entries of the directory with a "." in their
\* names, which the content files, metadata.json and the manifest files have and the
\* directories of the storage have not; none for a path that names no directory
glob_count(case_id) ==
    LET case_dir == PathJoin(DATA_DIR, case_id)
        key == file_key(case_dir)
    IN IF ~is_dir(case_dir) THEN 0
       ELSE Cardinality(content_files(case_dir))
            + Cardinality({k \in DOMAIN fs :
                    /\ fs[k].kind # "absent"
                    /\ k # Parent(k)
                    /\ Parent(k) = key})

\* dict.get(key, default)
dict_get(d, k, default) == IF k \in DOMAIN d THEN d[k] ELSE default

\* len(v) is defined: for a list and a str (a str that is measured is written
\* character by character, so that its length is that of the sequence)
has_len(v) == v.t \in {"list", "str"}

\* v[:5] is defined: for a list and a str
has_slice(v) == v.t \in {"list", "str"}

\* CaseSearchResult (models.py 67-74) accepts title: str, summary: str,
\* key_findings: List[str]
model_accepts(title, summary, key_findings) ==
    title.t = "str" /\ summary.t = "str" /\ key_findings.t = "list"

\* lines 281-300: the defaults, replaced one after the other inside the try; an
\* exception (json.load, or len of the documents value) leaves the assignments made
\* before it and keeps the defaults of the rest
case_fields(mf, case_id, summary0) ==
    LET loaded == mf.kind = "json"
        documents == IF loaded THEN dict_get(mf.data, "documents", JList(<<>>))
                     ELSE JList(<<>>)
    IN [title |-> IF loaded THEN dict_get(mf.data, "title", JStr(case_id))
                  ELSE JStr(case_id),
        summary |-> IF loaded THEN dict_get(mf.data, "summary", summary0) ELSE summary0,
        key_findings |-> IF loaded THEN dict_get(mf.data, "key_findings", JList(<<>>))
                         ELSE JList(<<>>),
        doc_count |-> IF has_len(documents) THEN Len(documents.v) ELSE 0]

\* the CaseSearchResult of one retained case, or the exception raised in building it
case_result(case_id, score, case_texts) ==
    LET summary0 == JStr(text_take(dict_get(case_texts, case_id, <<>>), SummaryLen))
        f == case_fields(metadata_file(case_id), case_id, summary0)
        doc_count == IF f.doc_count = 0 /\ case_dir_exists(case_id)
                     THEN Max(0, glob_count(case_id) - 1) ELSE f.doc_count
    IN IF has_slice(f.key_findings) /\ model_accepts(f.title, f.summary, f.key_findings)
       THEN [case_id |-> case_id, title |-> f.title.v,
             relevance_score |-> relevance_score(score),
             summary |-> f.summary.v,
             key_findings |-> SubSeq(f.key_findings.v, 1,
                                     Min(MaxFindings, Len(f.key_findings.v))),
             document_count |-> doc_count]
       ELSE [case_id |-> case_id, raised |-> "CaseSearchResult"]

\* a case_result that is an exception
is_raised(r) == "raised" \in DOMAIN r

\* lines 277-309: the results of the cases sorted_cases
case_results(agg, sorted_cases) ==
    [k \in 1..Len(sorted_cases) |->
        case_result(sorted_cases[k], agg.case_scores[sorted_cases[k]], agg.case_texts)]

\* lines 271-309: sorted(...)[:top_k], and the result of each
top_cases(agg, top_k) ==
    case_results(agg, first_n(sorted_desc(agg.order, agg.case_scores), top_k))

\* everything search_cases does with the hits the collection returned
rank_cases(hits, top_k) ==
    top_cases(dedup([order |-> <<>>, case_scores |-> <<>>, case_texts |-> <<>>], hits, 1),
              top_k)

\* n_results=min(50, self.chroma_collection.count())
pool_size == Min(PoolLimit, Len(collection))

\* the external calls of search_cases, in order: the description is embedded (239),
\* the store is counted and searched (243-247)
SearchCalls == <<"embed", "count", "store">>

\* what search_cases returns or raises, results being the results of the cases
search_results(description, top_k, hits, results) ==
    IF \E k \in 1..Len(results) : is_raised(results[k])
    THEN \* lines 302-309 are outside the try: the exception leaves search_cases
         [op |-> "search", status |-> "raised", text |-> description,
          calls |-> SearchCalls, error |-> "CaseSearchResult", hits |-> hits]
    ELSE [op |-> "search", status |-> "ok", text |-> description,
          calls |-> SearchCalls, top_k |-> top_k, hits |-> hits, results |-> results]

\* what search_cases returns or raises, hits being what the collection returned
search_hits(description, top_k, hits) ==
    search_results(description, top_k, hits, rank_cases(hits, top_k))

search_cases(description, dist, top_k) ==
    \/ /\ ~initialized
       /\ result' = NotInitialized("search")
       /\ UNCHANGED <<initialized, collection, fs, runs>>
    \/ \* collection.query validates n_results and raises when it is not positive
       /\ initialized
       /\ pool_size <= 0
       /\ result' = [op |-> "search", status |-> "raised", text |-> description,
                     calls |-> SearchCalls, error |-> "n_results"]
       /\ UNCHANGED <<initialized, collection, fs, runs>>
    \/ /\ initialized
       /\ pool_size > 0
       /\ result' = search_hits(description, top_k, chroma_query(dist, pool_size, NoneStr))
       /\ UNCHANGED <<initialized, collection, fs, runs>>

----------------------------------------------------------------------------
(* ingest_documents step by step, as run by processes that share the       *)
(* persistent collection and the manifest files (the server and the        *)
(* ingest.py command line each hold an engine of their own).  No lock is   *)
(* taken anywhere in ingest_documents, so the steps of two runs interleave.*)

\* the (case_dir, case_id) arguments of the runs
RunCalls == IngestCalls \cup {IngestCall(DirE, CaseE)}

\* the metadata.json files of the cases: case c has one, the others none
MetadataFixture == [p \in {MetadataPath(CaseC)} |-> GoodMetadata]

Runners == {"p1", "p2"}


Idle == [pc |-> "idle"]

\* lines 332-350: the manifest is read once, into the run's memory, and the
\* documents are read (a reader that raises ends the run)
run_start(r, case_dir, case_id, metadata, force_reingest) ==
    /\ runs[r].pc = "idle"
    /\ runs' = [runs EXCEPT ![r] =
            [pc |-> IF reader_raises(case_dir) THEN "raised" ELSE "loop",
             case_dir |-> case_dir, case_id |-> case_id,
             metadata |-> metadata, force |-> force_reingest,
             loaded |-> file_at(fs, IngestManifestPath(case_dir)),
             manifest |-> load_manifest(file_at(fs, IngestManifestPath(case_dir))),
             i |-> 1, ingested |-> 0, skipped |-> 0]]
    /\ UNCHANGED <<initialized, collection, fs, result>>

\* lines 352-379: one iteration of the loop, on the shared collection
run_doc(r) ==
    LET run == runs[r]
        st  == ingest_doc([manifest |-> run.manifest, coll |-> collection,
                           ingested |-> run.ingested, skipped |-> run.skipped],
                          load_data(run.case_dir)[run.i], run.case_dir, run.case_id,
                          run.metadata, run.force)
    IN /\ run.pc = "loop"
       /\ run.i <= Len(load_data(run.case_dir))
       /\ Len(st.coll) <= MaxStore
       /\ collection' = st.coll
       /\ runs' = [runs EXCEPT ![r] = [run EXCEPT !.manifest = st.manifest,
                                                  !.ingested = st.ingested,
                                                  !.skipped = st.skipped,
                                                  !.i = @ + 1]]
       /\ UNCHANGED <<initialized, fs, result>>

\* line 384: open(manifest_path, 'w') creates the file or cuts it to length 0
run_open(r) ==
    /\ runs[r].pc = "loop"
    /\ runs[r].i > Len(load_data(runs[r].case_dir))
    /\ fs' = file_put(fs, IngestManifestPath(runs[r].case_dir), Corrupt)
    /\ runs' = [runs EXCEPT ![r].pc = "dump"]
    /\ UNCHANGED <<initialized, collection, result>>

\* lines 385-389: json.dump and the close of the file; the run returns its counts.
\* The text (shorter than the buffer of the file object) is written at the close, from
\* offset 0 of the run's own descriptor, over what the file holds then: what another
\* run has written since this run's open stays beyond the end of this run's text,
\* and the file is no JSON text when that is longer
run_dump(r) ==
    /\ runs[r].pc = "dump"
    /\ LET path == IngestManifestPath(runs[r].case_dir)
       IN fs' = file_put(fs, path,
                    IF file_size(file_at(fs, path)) > json_len(runs[r].manifest)
                    THEN Corrupt ELSE json_dump(runs[r].manifest))
    /\ runs' = [runs EXCEPT ![r].pc = "done"]
    /\ UNCHANGED <<initialized, collection, result>>

\* the process is killed in the middle of a run
run_crash(r) ==
    /\ runs[r].pc \in {"loop", "dump"}
    /\ runs' = [runs EXCEPT ![r] = [@ EXCEPT !.pc = "crashed"] @@ [at |-> runs[r].pc]]
    /\ UNCHANGED <<initialized, collection, fs, result>>

InitRuns ==
    /\ initialized = TRUE
    /\ collection = <<>>
    /\ fs \in StartFiles(MetadataFixture)
    /\ result = [op |-> "none", status |-> "ok"]
    /\ runs = [r \in Runners |-> Idle]

NextRuns ==
    \/ \E r \in Runners, c \in RunCalls, m \in MetadataInputs, f \in BOOLEAN :
            run_start(r, c.case_dir, c.case_id, m, f)
    \/ \E r \in Runners : run_doc(r)
    \/ \E r \in Runners : run_open(r)
    \/ \E r \in Runners : run_dump(r)
    \/ \E r \in Runners : run_crash(r)

SpecRuns == InitRuns /\ [][NextRuns]_vars

----------------------------------------------------------------------------
(* The specification of the engine's service operations, each one atomic *)

CaseIds == {c.case_id : c \in IngestCalls}

\* the case_id arguments of query: none, the empty string, a case identifier
CaseFilters == {NoneStr, SomeStr(<<>>)} \cup {SomeStr(c) : c \in CaseIds}

\* the top_k arguments of search_cases (the HTTP layer passes 5)
TopKs == {1, 5}

\* a query text, or a case description, with something in it
SomeText == <<" ", "q">>

\* query and search_cases change nothing but result: the states they lead to are all
\* reached by calling them in the states the other operations leave, and they are
\* explored from those states only
ReadOps == {"query", "search", "http_query", "http_search"}

\* the distances of the stored texts to the embedding of the text a read-only call is
\* given: any, the embedding provider being opaque
ReadDists == IF result.op \in ReadOps THEN {} ELSE [stored_texts -> Dists]

\* get_document_count can be called in every state and changes nothing but result:
\* the states it leaves hold every engine, collection and files there are, and in Spec
\* the read-only calls are explored from those
CountDists == IF result.op = "count" THEN [stored_texts -> Dists] ELSE {}

Init ==
    /\ initialized = FALSE
    /\ collection = <<>>
    /\ fs \in StartFiles(MetadataFixture)
    /\ result = [op |-> "none", status |-> "ok"]
    /\ runs = [r \in Runners |-> Idle]

Next ==
    \/ initialize
    \/ \E c \in IngestCalls, m \in MetadataInputs, f \in BOOLEAN :
            ingest_documents(c.case_dir, c.case_id, m, f)
    \/ \* the call POST /ingest makes for a directory without files (ingest.py, lines
       \* 138-150, passes such a directory by)
       ingest_documents(DirOld, CaseOld, None, FALSE)
    \/ get_document_count
    \/ clear_all_documents
    \/ \E c \in CaseIds : clear_case_documents(c)
    \/ \E dist \in CountDists, c \in CaseFilters : query(SomeText, dist, c)
    \/ \E dist \in CountDists, k \in TopKs : search_cases(SomeText, dist, k)

Spec == Init /\ [][Next]_vars

----------------------------------------------------------------------------
(* The texts of query and search_cases: the HTTP handlers of main.py in front *)
(* of the engine, and the engine called with the same texts                  *)

\* the characters str.isspace accepts, and str.strip() removes: the ASCII ones, the
\* others by their code points
WhiteSpace ==
    {" ", "\t", "\n", "\r", "\\x0b", "\f", "\\x1c", "\\x1d", "\\x1e", "\\x1f",
     "\\x85", "\\xa0", "\\u1680", "\\u2000", "\\u2001", "\\u2002", "\\u2003",
     "\\u2004", "\\u2005", "\\u2006", "\\u2007", "\\u2008", "\\u2009", "\\u200a",
     "\\u2028", "\\u2029", "\\u202f", "\\u205f", "\\u3000"}

\* str.isspace of one character
IsSpace(ch) == ch \in WhiteSpace

RECURSIVE lstrip(_)
lstrip(s) == IF s # <<>> /\ IsSpace(Head(s)) THEN lstrip(Tail(s)) ELSE s

RECURSIVE rstrip(_)
rstrip(s) == IF s # <<>> /\ IsSpace(s[Len(s)]) THEN rstrip(SubSeq(s, 1, Len(s) - 1)) ELSE s

\* text.strip()
strip(s) == rstrip(lstrip(s))

\* is_blank with the test "if not text:" only
is_blank_empty_only(text) == text = <<>>

\* not text or not text.strip()
is_blank(text) == text = <<>> \/ strip(text) = <<>>

\* the handlers run once lifespan (lines 24-33) has built and initialized the engine,
\* the server taking no request before: rag_engine is never None in a handler
Http(op, status, text, calls, body) ==
    [op |-> op, status |-> status, text |-> text, calls |-> calls, body |-> body]

\* POST /query
query_documents(query_text, dist, case_id) ==
    \/ /\ initialized
       /\ is_blank(query_text)
       /\ result' = Http("http_query", "400", query_text, <<>>, <<>>)
       /\ UNCHANGED <<initialized, collection, fs, runs>>
    \/ /\ initialized
       /\ ~is_blank(query_text)
       /\ result' = Http("http_query", "200", query_text, QueryCalls,
                          sources_of(retrieve(dist, case_id)))
       /\ UNCHANGED <<initialized, collection, fs, runs>>

\* the response to POST /search-cases, results being the results of the cases
search_response(description, results) ==
    IF \E k \in 1..Len(results) : is_raised(results[k])
    THEN Http("http_search", "500", description, SearchCalls, <<>>)
    ELSE Http("http_search", "200", description, SearchCalls, results)

\* POST /search-cases: search_cases(description, top_k=5), any exception of it a 500
search_cases_endpoint(description, dist) ==
    \/ /\ initialized
       /\ is_blank(description)
       /\ result' = Http("http_search", "400", description, <<>>, <<>>)
       /\ UNCHANGED <<initialized, collection, fs, runs>>
    \/ /\ initialized
       /\ ~is_blank(description)
       /\ pool_size <= 0
       /\ result' = Http("http_search", "500", description, SearchCalls, <<>>)
       /\ UNCHANGED <<initialized, collection, fs, runs>>
    \/ /\ initialized
       /\ ~is_blank(description)
       /\ pool_size > 0
       /\ result' = search_response(description,
                                    rank_cases(chroma_query(dist, pool_size, NoneStr), 5))
       /\ UNCHANGED <<initialized, collection, fs, runs>>

\* POST /ingest: clear_all_documents first when clear_first is set, then
\* ingest_documents of DATA_DIR / case_id under the identifier case_id, all in one call
ingest_endpoint(case_id, metadata, force_reingest, clear_first) ==
    LET files == IF clear_first THEN file_put(fs, ClearManifestPath, Absent) ELSE fs
        coll == IF clear_first THEN <<>> ELSE collection
        case_dir == PathJoin(DATA_DIR, case_id)
        run == ingest_run_from(files, coll, case_dir, case_id, metadata, force_reingest)
    IN
    \/ \* lines 148-153: nothing at that path, after the clear
       /\ initialized
       /\ ~path_exists(files, case_dir)
       /\ collection' = coll
       /\ fs' = files
       /\ result' = [op |-> "http_ingest", status |-> "404", case_id |-> case_id,
                     clear_first |-> clear_first]
       /\ UNCHANGED <<initialized, runs>>
    \/ \* lines 167-170: the reader's ValueError, a 500, after the clear
       /\ initialized
       /\ path_exists(files, case_dir)
       /\ reader_raises(case_dir)
       /\ collection' = coll
       /\ fs' = files
       /\ result' = [op |-> "http_ingest", status |-> "500", case_id |-> case_id,
                     clear_first |-> clear_first]
       /\ UNCHANGED <<initialized, runs>>
    \/ /\ initialized
       /\ path_exists(files, case_dir)
       /\ ~reader_raises(case_dir)
       /\ Len(run.coll) <= MaxStore
       /\ collection' = run.coll
       /\ fs' = file_put(files, IngestManifestPath(case_dir), json_dump(run.manifest))
       /\ result' = [op |-> "http_ingest", status |-> "200", case_id |-> case_id,
                     clear_first |-> clear_first, force |-> force_reingest,
                     documents_added |-> run.ingested,
                     documents_skipped |-> run.skipped]
       /\ UNCHANGED <<initialized, runs>>

\* the directory of case c, by a path with a "." part
CaseDotC == <<".", "/", "c">>
\* an absolute path
CaseAbsA == <<"/", "a">>

\* the case_id of the requests: c, and the nested directory by its relative path;
\* ./c; old, a directory without files; d and /a, which name nothing
RequestCaseIds == {CaseC, CaseOldD, CaseOld, CaseDotC, CaseD, CaseAbsA}

\* the texts given: empty, white space only, white space around a word
Texts == {<<>>, <<"\n", "\t", " ">>, SomeText}

\* the case_id of the queries: none, or case c
TextFilters == {NoneStr, SomeStr(CaseC)}

NextText ==
    \/ initialize
    \/ \E c \in RequestCaseIds, f \in BOOLEAN, clear_first \in BOOLEAN :
            ingest_endpoint(c, None, f, clear_first)
    \/ \E t \in Texts, dist \in ReadDists, c \in TextFilters : query(t, dist, c)
    \/ \E t \in Texts, dist \in ReadDists : search_cases(t, dist, 5)
    \/ \E t \in Texts, dist \in ReadDists, c \in TextFilters : query_documents(t, dist, c)
    \/ \E t \in Texts, dist \in ReadDists : search_cases_endpoint(t, dist)

SpecText == Init /\ [][NextText]_vars

----------------------------------------------------------------------------
(* search_cases over the states of a case's metadata.json *)

\* a key the file does not have
Missing == [t |-> "missing", v |-> <<>>]

\* what the file may hold under a key: nothing, a value of the schema's type, null,
\* a value of another type
FieldValues(key) ==
    {Missing, JNull} \cup
    (IF key = "title" THEN {JStr(<<"Title C">>), JNum(<<"1">>)}
     ELSE IF key = "summary" THEN {JStr(Text("m", 40))}
     ELSE IF key = "key_findings"
          THEN {JList(<<"f1", "f2", "f3", "f4", "f5", "f6">>), JStr(<<"f1">>)}
     ELSE {JList(<<"d1">>), JNum(<<"1">>), JStr(<<"a", "b", "c">>)})

MetadataKeys == {"title", "summary", "key_findings", "documents"}

\* the JSON object with the keys picked that are not missing
MetadataDict(pick) == [k \in {x \in MetadataKeys : pick[x].t # "missing"} |-> pick[k]]

\* the metadata.json files: none, an unparsable one, or a JSON object
MetadataFiles ==
    {Absent, Corrupt} \cup
    {json_dump(MetadataDict([title |-> t, summary |-> s, key_findings |-> k,
                             documents |-> d])) :
        t \in FieldValues("title"), s \in FieldValues("summary"),
        k \in FieldValues("key_findings"), d \in FieldValues("documents")}

InitMeta ==
    /\ initialized = FALSE
    /\ collection = <<>>
    /\ \E mf \in MetadataFiles :
          fs = [p \in ManifestPaths |-> Absent] @@
               [MetadataFixture EXCEPT ![MetadataPath(CaseC)] = mf]
    /\ result = [op |-> "none", status |-> "ok"]
    /\ runs = [r \in Runners |-> Idle]

NextMeta ==
    \/ initialize
    \/ \E c \in IngestCalls : ingest_documents(c.case_dir, c.case_id, None, FALSE)
    \/ ingest_documents(DirOld, CaseOld, None, FALSE)
    \/ \E dist \in ReadDists, k \in TopKs : search_cases(SomeText, dist, k)

SpecMeta == InitMeta /\ [][NextMeta]_vars

----------------------------------------------------------------------------
(* query over the lengths of the stored fragment's text *)

\* the longest fragment text
MaxTextLen == 205

\* a characters, then dots
Letters(n, dots) ==
    (IF n = 0 THEN <<>> ELSE Text("a", n)) \o (IF dots = 0 THEN <<>> ELSE Text(".", dots))

\* the fragment texts: of every length up to MaxTextLen, ending in a letter or in "..."
FragmentTexts ==
    {Letters(n, 0) : n \in 1..MaxTextLen} \cup {Letters(n - 3, 3) : n \in 3..MaxTextLen}

\* a store that holds one fragment of case c
InitSnippet ==
    /\ initialized = TRUE
    /\ \E t \in FragmentTexts :
          collection = << [metadata |-> [case_id |-> CaseC, file_name |-> FileXY],
                           text |-> t] >>
    /\ fs \in StartFiles(MetadataFixture)
    /\ result = [op |-> "none", status |-> "ok"]
    /\ runs = [r \in Runners |-> Idle]

NextSnippet ==
    \E dist \in ReadDists, c \in {NoneStr, SomeStr(CaseC)} : query(SomeText, dist, c)

SpecSnippet == InitSnippet /\ [][NextSnippet]_vars

----------------------------------------------------------------------------
(* search_cases over the distances of two stored fragments *)

\* a store that holds one fragment of case c and one of case c_x
InitScore ==
    /\ initialized = TRUE
    /\ collection = << [metadata |-> [case_id |-> CaseC, file_name |-> FileXY],
                        text |-> Text("p", 350)],
                       [metadata |-> [case_id |-> CaseCX, file_name |-> FileY],
                        text |-> Text("r", 201)] >>
    /\ fs \in StartFiles(MetadataFixture)
    /\ result = [op |-> "none", status |-> "ok"]
    /\ runs = [r \in Runners |-> Idle]

NextScore ==
    \E dist \in (IF result.op \in ReadOps THEN {} ELSE [stored_texts -> ScoreDists]),
       k \in TopKs : search_cases(SomeText, dist, k)

SpecScore == InitScore /\ [][NextScore]_vars

----------------------------------------------------------------------------
(* Properties *)

\* the code point of a character: the order Python compares strings by
Ord(ch) ==
    CASE ch = "_" -> 95
      [] ch = "c" -> 99
      [] ch = "d" -> 100
      [] ch = "x" -> 120
      [] OTHER    -> 0

RECURSIVE str_less(_, _)
\* a < b on strings
str_less(a, b) ==
    IF b = <<>> THEN FALSE
    ELSE IF a = <<>> THEN TRUE
    ELSE IF Ord(a[1]) # Ord(b[1]) THEN Ord(a[1]) < Ord(b[1])
    ELSE str_less(Tail(a), Tail(b))

IngestOk == result.op = "ingest" /\ result.status = "ok"
SearchOk == result.op = "search" /\ result.status = "ok"
QueryOk  == result.op = "query" /\ result.status = "ok"

\* C1: an ingest with force=false that directly follows an ingest with force=false of
\* the same case directory returns ingested = 0 and skipped = the number of fragments
\* of the directory (the first run's ingested + skipped), and leaves the collection
\* as it was.
C1_SecondIngestSkipsAll ==
    [][\A c \in IngestCalls, m \in MetadataInputs :
          ( /\ IngestOk
            /\ result.case_dir = c.case_dir
            /\ result.case_id = c.case_id
            /\ ~result.force
            /\ ingest_documents(c.case_dir, c.case_id, m, FALSE) )
          => ( /\ result'.ingested = 0
               /\ result'.skipped = Len(load_data(c.case_dir))
               /\ result'.skipped = result.ingested + result.skipped
               /\ collection' = collection )]_vars

\* a second run has returned: everything skipped, in a directory with several fragments
C1_Witness ==
    /\ IngestOk
    /\ ~result.force
    /\ result.ingested = 0
    /\ result.skipped = 2

\* the source a manifest entry names has a fragment in the collection
entry_stored(entry) ==
    \E i \in 1..Len(collection), j \in 1..Len(load_data(entry.ingested_at)) :
        /\ load_data(entry.ingested_at)[j].file_name = entry.file_name
        /\ collection[i].text = load_data(entry.ingested_at)[j].text

\* C2: every key of the manifest that ingest consults names a source whose fragments
\* are in the collection (one entry per key holds by the manifest being a dict).
C2_ManifestNamesStoredSources ==
    \A d \in CaseDirs :
        fs[IngestManifestPath(d)].kind = "json"
        => \A k \in DOMAIN fs[IngestManifestPath(d)].data :
                entry_stored(fs[IngestManifestPath(d)].data[k])

\* C3: an ingest with force=true returns ingested = the number of fragments of the
\* directory and skipped = 0, and the collection ends with those fragments, in order.
C3_ForceIngestsAll ==
    (IngestOk /\ result.force)
    => LET docs == load_data(result.case_dir)
           n == Len(docs)
       IN /\ result.ingested = n
          /\ result.skipped = 0
          /\ Len(collection) >= n
          /\ \A j \in 1..n : collection[Len(collection) - n + j].text = docs[j].text

\* a forced ingest of two fragments, the first of them in the collection already
C3_Witness ==
    /\ IngestOk
    /\ result.force
    /\ result.ingested = 2
    /\ \E i \in 1..(Len(collection) - 2) :
            collection[i].text = collection[Len(collection) - 1].text

\* C4: with the manifest file present and unparsable, an ingest with force=false
\* returns ingested = the number of fragments of the directory and skipped = 0.
C4_CorruptManifestIngestsAll ==
    [][\A c \in IngestCalls, m \in MetadataInputs :
          ( /\ initialized
            /\ fs[IngestManifestPath(c.case_dir)] = Corrupt
            /\ ingest_documents(c.case_dir, c.case_id, m, FALSE) )
          => ( /\ result'.ingested = Len(load_data(c.case_dir))
               /\ result'.skipped = 0 )]_vars

\* C5: two runs with force=false of the same case directory, interleaved in any way,
\* leave no fragment in the collection twice.
C5_NoDoubleInsert ==
    \A r1, r2 \in Runners :
        ( /\ r1 # r2
          /\ runs[r1].pc \notin {"idle", "crashed"}
          /\ runs[r2].pc \notin {"idle", "crashed"}
          /\ runs[r1].case_dir = runs[r2].case_dir
          /\ runs[r1].case_id = runs[r2].case_id
          /\ ~runs[r1].force
          /\ ~runs[r2].force )
        => \A i, j \in 1..Len(collection) :
                i < j => collection[i].text # collection[j].text

\* C6: after a run is killed during its manifest save (no other run having started),
\* the manifest file is the file the run loaded or the complete new ledger.
C6_SaveAtomic ==
    \A r \in Runners :
        ( /\ runs[r].pc = "crashed"
          /\ runs[r].at = "dump"
          /\ \A q \in Runners \ {r} : runs[q].pc = "idle" )
        => fs[IngestManifestPath(runs[r].case_dir)]
                \in {runs[r].loaded, json_dump(runs[r].manifest)}

\* the least distance among the hits of a case
best_distance(hits, case_id) ==
    LET ds == {hits[i].distance : i \in {i \in 1..Len(hits) : hits[i].metadata.case_id = case_id}}
    IN CHOOSE d \in ds : \A e \in ds : (float_cmp(d, e) <= 0)

\* C7: search_cases returns no case twice, and each returned score is the rounded
\* similarity of the nearest hit of that case in the pool.
C7_DistinctCasesBestScore ==
    SearchOk
    => /\ \A i, j \in 1..Len(result.results) :
            i # j => result.results[i].case_id # result.results[j].case_id
       /\ \A k \in 1..Len(result.results) :
            /\ \E i \in 1..Len(result.hits) :
                    result.hits[i].metadata.case_id = result.results[k].case_id
            /\ result.results[k].relevance_score =
                    relevance_score(similarity(best_distance(result.hits,
                                                             result.results[k].case_id)))

\* a pool with two hits of one case at different distances
C7_Witness ==
    /\ SearchOk
    /\ Len(result.results) > 0
    /\ \E i, j \in 1..Len(result.hits) :
            /\ result.hits[i].metadata.case_id = result.hits[j].metadata.case_id
            /\ result.hits[i].distance # result.hits[j].distance

\* C8: the results of search_cases are in descending order of score, equal scores in
\* ascending order of case identifier.
C8_SortedWithTieBreak ==
    SearchOk
    => \A i, j \in 1..Len(result.results) :
            i < j =>
                \/ result.results[i].relevance_score > result.results[j].relevance_score
                \/ /\ result.results[i].relevance_score = result.results[j].relevance_score
                   /\ str_less(result.results[i].case_id, result.results[j].case_id)

\* C9: on an initialized engine with an empty collection, search_cases returns the
\* empty list and get_document_count returns 0, neither raising.
C9_EmptyStore ==
    (initialized /\ Len(collection) = 0)
    => /\ result.op = "search" => (result.status = "ok" /\ result.results = <<>>)
       /\ result.op = "count" => (result.status = "ok" /\ result.value = 0)

\* C10: a query with a case identifier as case_id returns only sources of nodes whose
\* case_id metadata is that identifier.
C10_FilterExact ==
    (QueryOk /\ \E c \in CaseIds : result.case_id = SomeStr(c))
    => /\ Len(result.sources) = Len(result.source_nodes)
       /\ \A k \in 1..Len(result.source_nodes) :
            /\ result.source_nodes[k].metadata.case_id = result.case_id.str
            /\ result.sources[k] = source_of(result.source_nodes[k])

\* a filtered query that returned a source while the collection held another case's node
C10_Witness ==
    /\ QueryOk
    /\ TruthyStr(result.case_id)
    /\ Len(result.sources) > 0
    /\ \E i \in 1..Len(collection) : collection[i].metadata.case_id # result.case_id.str

\* C11 as claimed: before initialize has completed, every service call other than
\* initialize raises the not-initialized error and changes neither the collection
\* nor the manifest files.
C11_AllFailBeforeInit ==
    [][~initialized =>
          \/ initialized'
          \/ /\ result'.status = "not_initialized"
             /\ UNCHANGED <<initialized, collection, fs>>]_vars

\* C11 as amended: before initialize has completed, query, search_cases, ingest,
\* clear_all and clear_case raise the not-initialized error and get_document_count
\* returns 0, none of them changing the collection or the manifest files; and an
\* initialize call on an initialized engine changes none of them either.
C11_BeforeInitNoEffect ==
    [][ /\ ~initialized =>
            \/ initialized'
            \/ /\ UNCHANGED <<initialized, collection, fs>>
               /\ \/ result'.status = "not_initialized"
                  \/ result' = [op |-> "count", status |-> "ok", value |-> 0]
        /\ (initialized /\ result'.op = "initialize") =>
                UNCHANGED <<initialized, collection, fs>> ]_vars

\* an ingest was called before initialize and raised
C11_Witness ==
    /\ ~initialized
    /\ result = NotInitialized("ingest")
    /\ fs[ClearManifestPath] = Corrupt

\* white space only, the empty text included
Blank(text) == \A i \in 1..Len(text) : text[i] \in WhiteSpace

HasBlankText == "text" \in DOMAIN result /\ Blank(result.text)

\* C12 (as stated): query and rankCases given an empty or white-space-only text are
\* rejected with a validation error before any call to the embedding provider, the
\* completion provider or the store
C12_BlankRejected ==
    HasBlankText => result.status = "400" /\ result.calls = <<>>

\* C12 (amended): the handlers POST /query and POST /search-cases reject an empty or
\* white-space-only text with status 400 before the engine, and so any provider or the
\* store, is called
C12_BlankRejectedByHandlers ==
    (HasBlankText /\ result.op \in {"http_query", "http_search"}) =>
        result.status = "400" /\ result.calls = <<>>

C12_Witness ==
    /\ result = Http("http_search", "400", <<"\n", "\t", " ">>, <<>>, <<>>)
    /\ Len(collection) > 0

\* the manifest ingest_documents loads for a case directory
ingest_manifest(files, case_dir) == load_manifest(files[IngestManifestPath(case_dir)])

\* the entries of a manifest recorded for a case
entries_of(manifest, case_id) == {k \in DOMAIN manifest : manifest[k].case_id = case_id}

\* C13: clearCase(caseId) removes from the manifest that ingest consults every entry
\* recorded for caseId, removes no entry of any other case (a case whose identifier
\* starts with caseId and the separator included), and returns the number removed
C13_ClearCaseExact ==
    [][(result'.op = "clear_case" /\ result'.status = "ok") =>
         \A c \in IngestCalls : c.case_id = result'.case_id =>
            LET before == ingest_manifest(fs, c.case_dir)
                after  == ingest_manifest(fs', c.case_dir)
                gone   == entries_of(before, result'.case_id)
            IN /\ DOMAIN after = DOMAIN before \ gone
               /\ \A k \in DOMAIN after : after[k] = before[k]
               /\ result'.value = Cardinality(gone)]_vars

\* C15: two sources get the same manifest key only if they have the same case
\* identifier and the same file name, so that no source of a case is skipped because
\* of an entry recorded for another case
C15_KeyInjective ==
    [][(result'.op = "ingest" /\ result'.status = "ok" /\ ~result'.force) =>
         LET manifest == ingest_manifest(fs, result'.case_dir)
             docs == load_data(result'.case_dir)
         IN \A i \in 1..Len(docs) :
               LET key == doc_key(result'.case_id, docs[i].file_name)
               IN key \in DOMAIN manifest =>
                     /\ manifest[key].case_id = result'.case_id
                     /\ manifest[key].file_name = docs[i].file_name]_vars

\* C19: after clearAll has returned true the store is empty and so is the manifest
\* ingest consults, and an ingest with force=false that follows inserts all the
\* sources of its case again, skipping none
C19_IngestAfterClearAll ==
    [][/\ (result'.op = "clear_all" /\ result'.status = "ok") =>
            /\ result'.value
            /\ collection' = <<>>
            /\ \A d \in CaseDirs : ingest_manifest(fs', d) = <<>>
       /\ (/\ result.op = "clear_all" /\ result.status = "ok"
           /\ result'.op = "ingest" /\ result'.status = "ok" /\ ~result'.force) =>
            /\ result'.skipped = 0
            /\ result'.ingested = Len(load_data(result'.case_dir))
            /\ Len(collection') = result'.ingested]_vars

\* C20: every fragment ingest inserts carries the case_id ingest was given, whatever
\* the extra metadata, so that it agrees with the case_id of the manifest entry
\* recorded for its source
C20_StoredCaseId ==
    [][(result'.op = "ingest" /\ result'.status = "ok") =>
         \A k \in (Len(collection) + 1)..Len(collection') :
            LET node == collection'[k]
                key == doc_key(result'.case_id, node.metadata.file_name)
            IN /\ node.metadata.case_id = result'.case_id
               /\ ingest_manifest(fs', result'.case_dir)[key].case_id
                     = node.metadata.case_id]_vars

\* C18: under every interleaving of two ingest runs for two different cases that share
\* one manifest file, once both runs have finished the manifest holds the entries of
\* both, so that a later ingest with force=false of either case skips all its sources
C18_NoLostUpdate ==
    \A r1, r2 \in Runners :
        (/\ runs[r1].pc = "done" /\ runs[r2].pc = "done"
         /\ runs[r1].case_id # runs[r2].case_id
         /\ IngestManifestPath(runs[r1].case_dir) = IngestManifestPath(runs[r2].case_dir)) =>
            LET manifest == ingest_manifest(fs, runs[r1].case_dir)
                docs == load_data(runs[r1].case_dir)
            IN \A i \in 1..Len(docs) :
                  doc_key(runs[r1].case_id, docs[i].file_name) \in DOMAIN manifest

\* the texts of the hits of a case that are nearest to the query
best_texts(hits, case_id) ==
    {hits[i].text : i \in {j \in 1..Len(hits) :
        /\ hits[j].metadata.case_id = case_id
        /\ \A l \in 1..Len(hits) : hits[l].metadata.case_id = case_id
                                        => (float_cmp(hits[j].distance, hits[l].distance) <= 0)}}

\* C14: whatever the state of a retained case's metadata file (absent, unparsable,
\* or parsable with missing, null or wrongly typed fields) rankCases does not raise
\* and returns a result for the case; with the metadata absent or unparsable the
\* result has the case identifier as title, the best fragment's text cut to 300
\* characters as summary, and no key findings
C14_MetadataNeverAborts ==
    (result.op = "search" /\ result.status # "not_initialized" /\ collection # <<>>) =>
        /\ result.status = "ok"
        /\ Len(result.results) =
              Min(result.top_k, Cardinality({result.hits[j].metadata.case_id :
                                                j \in 1..Len(result.hits)}))
        /\ \A k \in 1..Len(result.results) :
              LET r == result.results[k] IN
              metadata_file(r.case_id).kind # "json" =>
                 /\ r.title = r.case_id
                 /\ r.key_findings = <<>>
                 /\ \E t \in best_texts(result.hits, r.case_id) :
                        r.summary = text_take(t, SummaryLen)

\* the text ends with the marker "..."
EndsWithMarker(t) == t # <<>> /\ t[Len(t)].ch = "." /\ t[Len(t)].n >= 3

\* C16 (as stated): the citation snippet has at most 200 characters, is the full text
\* when the text has at most 200 characters, and ends with the truncation marker
\* exactly when the text was cut
C16_SnippetAtMost200 ==
    (result.op = "query" /\ result.status = "ok") =>
        \A k \in 1..Len(result.sources) :
            LET text == result.source_nodes[k].text
                s == result.sources[k].snippet
            IN /\ text_len(s) <= SnippetLen
               /\ text_len(text) <= SnippetLen => s = text
               /\ EndsWithMarker(s) <=> text_len(text) > SnippetLen

\* C16 (amended): the citation snippet is the full text when the text has at most 200
\* characters; otherwise it is the first 200 characters of the text followed by the
\* marker "...", 203 characters in all
C16_SnippetShape ==
    (result.op = "query" /\ result.status = "ok") =>
        \A k \in 1..Len(result.sources) :
            LET text == result.source_nodes[k].text
                s == result.sources[k].snippet
            IN /\ text_len(text) <= SnippetLen => s = text
               /\ text_len(text) > SnippetLen =>
                    /\ text_len(s) = SnippetLen + text_len(Ellipsis)
                    /\ text_take(s, SnippetLen) = text_take(text, SnippetLen)
                    /\ EndsWithMarker(s)

C16_Witness ==
    /\ result.op = "query" /\ result.status = "ok"
    /\ Len(result.sources) = 1
    /\ text_len(result.source_nodes[1].text) = SnippetLen + 1
    /\ text_len(result.sources[1].snippet) = SnippetLen + 3

\* of the hits of a search: similarity(0) is 1 exactly and every similarity lies in
\* (0, 1]
SimilarityInRange(hits) ==
    \A i \in 1..Len(hits) :
        LET sim == similarity(hits[i].distance)
        IN /\ (float_cmp(hits[i].distance, float_of(0, 0)) = 0) => (float_cmp(sim, One) = 0)
           /\ (float_cmp(sim, float_of(0, 0)) > 0)
           /\ (float_cmp(sim, One) <= 0)

\* C17 (as stated): similarity is strictly decreasing in the distance, similarity(0)
\* is 1 exactly and every similarity lies in (0, 1], so that every relevance score
\* emitted lies in (0, 100]
C17_ScoreInHalfOpenRange ==
    (result.op = "search" /\ result.status = "ok") =>
        /\ \A i, j \in 1..Len(result.hits) :
                (float_cmp(result.hits[i].distance, result.hits[j].distance) < 0)
                => sim_gt(similarity(result.hits[i].distance),
                          similarity(result.hits[j].distance))
        /\ SimilarityInRange(result.hits)
        /\ \A k \in 1..Len(result.results) :
                /\ 0 < result.results[k].relevance_score
                /\ result.results[k].relevance_score <= 1000

\* C17 (amended): similarity never increases with the distance, similarity(0) is 1
\* exactly and every similarity lies in (0, 1], so that every relevance score emitted
\* lies in [0, 100]
C17_ScoreInClosedRange ==
    (result.op = "search" /\ result.status = "ok") =>
        /\ \A i, j \in 1..Len(result.hits) :
                (float_cmp(result.hits[i].distance, result.hits[j].distance) < 0)
                => ~sim_gt(similarity(result.hits[j].distance),
                           similarity(result.hits[i].distance))
        /\ SimilarityInRange(result.hits)
        /\ \A k \in 1..Len(result.results) :
                /\ 0 <= result.results[k].relevance_score
                /\ result.results[k].relevance_score <= 1000

\* two hits at different distances with the same similarity, and a score of 0.0
C17_Witness ==
    /\ result.op = "search" /\ result.status = "ok"
    /\ Len(result.results) = 2
    /\ \E i, j \in 1..Len(result.hits) :
            /\ (float_cmp(result.hits[i].distance, result.hits[j].distance) < 0)
            /\ (float_cmp(similarity(result.hits[i].distance),
                        similarity(result.hits[j].distance)) = 0)
    /\ \E k \in 1..Len(result.results) : result.results[k].relevance_score = 0

============================================================================
